---- MODULE Spec2Model ----
(***************************************************************************)
(* Scroll/time tracking and per-domain attribution of the scroll-tracker   *)
(* browser: ScrollTracker, the pausable TimeTracker and the global         *)
(* DomainStatsTracker (src/src/trackers/ScrollTracker.ts, part_010).       *)
(*                                                                         *)
(* Time is the value Date.now() returns; it advances only in Tick steps.   *)
(* A handler runs to completion at one instant (single-threaded JS).       *)
(* Sample timestamps are readings of the same clock (timestamp = now).     *)
(* A domain is the sequence of its hostname labels (<<"a","com">> is       *)
(* a.com); 'system' and 'unknown' are <<"system">> and <<"unknown">>.      *)
(***************************************************************************)
EXTENDS Integers, Sequences, FiniteSets, TLC

VARIABLES
  now,                \* Date.now()
  lastOp,             \* the handler that ran last, with its arguments
  env,                \* the inputs the environment draws from: [urls, tabs, deltas, touches]
  \* ---- global DomainStatsTracker
  domainStats,        \* Map domain -> {scrollTracker, timeTracker, lastVisited}
  activeTabsByDomain, \* Map domain -> Set of tab ids
  activeSessions,     \* Map domain -> SessionState
  sessionLogs,        \* SessionLog[]
  isBackgrounded,
  initPc,             \* position of the async initialize(): "loadStats", "loadLogs", "done"
  storage,            \* what BrowserStorage holds: [stats, logs]
  restarts,           \* number of process restarts so far
  \* ---- a TimeTracker on its own
  tt,                 \* the TimeTracker object
  ttRun,              \* observer: wall-clock time elapsed outside pause()..resume()
  ttHeld,             \* observer: pause() was called and resume() not yet
  ttLast,             \* observer: timestamp of the last sample tt did not ignore
  \* ---- a ScrollTracker on its own
  st,                 \* the ScrollTracker object
  fed,                \* observer: the deltas fed to st so far
  \* ---- the session-less DomainStatsTracker of one tab
  ptDomainStats,      \* Map domain -> {scrollTracker, timeTracker, lastVisited}
  currentDomain,      \* string | null
  ptHeld,             \* observer: the tab's pause() was called and resume() not yet
  \* ---- the original TimeTracker on its own, and the DomainSessionManager
  ott,                \* the TimeTracker object (src/src/trackers/TimeTracker.ts)
  dsm                 \* the DomainSessionManager object

vars == << now, lastOp, env, domainStats, activeTabsByDomain, activeSessions,
           sessionLogs, isBackgrounded, initPc, storage, restarts,
           tt, ttRun, ttHeld, ttLast, st, fed, ptDomainStats, currentDomain,
           ptHeld, ott, dsm >>

globalVars == << domainStats, activeTabsByDomain, activeSessions, sessionLogs,
                 isBackgrounded, initPc, storage, restarts >>
ttVars == << tt, ttRun, ttHeld, ttLast >>
stVars == << st, fed >>
ptVars == << ptDomainStats, currentDomain, ptHeld >>
oldVars == << ott, dsm >>

----------------------------------------------------------------------------
(* Bounds of the model *)

T0 == 1000
TickStep == 600
MaxTicks == 2
ShortStep == 200
MaxTicksTT == 2
MaxDist == 12
MaxFed == 4
MaxRestarts == 1
StoredSlack == 1
MaxLabels == 3
OldStep == 100
MaxTicksOld == 3
MaxSessions == 2

(* Program constants *)

SCROLL_TIMEOUT == 500
MIN_DELTA == 2
MIN_SESSION_DISTANCE == 10
MIN_SESSION_TIME == 1000
MAX_SESSION_LOGS == 10000
OTT_SCROLL_TIMEOUT == 150
OTT_MIN_DELTA == 2

(* Inputs *)

Deltas == {-12, 2, 5}
ScrollYs == {0, 40}
TouchActions == {"start", "move", "end"}

Abs(x) == IF x < 0 THEN -x ELSE x

----------------------------------------------------------------------------
(* JavaScript Map: a sequence of entries in insertion order *)

MapHas(m, k) == \E i \in 1..Len(m) : m[i].k = k
MapIdx(m, k) == CHOOSE i \in 1..Len(m) : m[i].k = k
MapGet(m, k) == m[MapIdx(m, k)].v
MapSet(m, k, v) ==
  IF MapHas(m, k) THEN [m EXCEPT ![MapIdx(m, k)].v = v]
  ELSE Append(m, [k |-> k, v |-> v])
MapDelete(m, k) == SelectSeq(m, LAMBDA e : e.k # k)
MapKeys(m) == {m[i].k : i \in 1..Len(m)}

----------------------------------------------------------------------------
(* ScrollTracker *)

NewScrollTracker(initialScrollPoints) ==
  [totalScrollPoints |-> initialScrollPoints, lastScrollY |-> 0]

\* variant: the signed delta is added
ST_processScrollEvent_Signed(s, scrollY, deltaY) ==
  [s EXCEPT !.totalScrollPoints = @ + deltaY, !.lastScrollY = scrollY]

ST_processScrollEvent(s, scrollY, deltaY) ==
  [s EXCEPT !.totalScrollPoints = @ + Abs(deltaY), !.lastScrollY = scrollY]

ST_getCurrentMetrics(s) == [distancePixels |-> s.totalScrollPoints]

ST_reset(s) == [s EXCEPT !.totalScrollPoints = 0, !.lastScrollY = 0]

----------------------------------------------------------------------------
(* TimeTracker (pausable).  timeoutAt is the deadline of the pending       *)
(* setTimeout, 0 when none is pending.                                     *)

NewTimeTracker(t) ==
  [sessionStartTime |-> t, scrollingTime |-> 0, scrollSessionStartTime |-> 0,
   isScrolling |-> FALSE, timeoutAt |-> 0, isPaused |-> FALSE,
   pauseStartTime |-> 0, totalPausedTime |-> 0]

\* variant: scroll samples are not ignored while paused
TT_processScrollEvent_WhilePaused(t, deltaY, timestamp, clock) ==
  IF Abs(deltaY) > MIN_DELTA
  THEN [t EXCEPT !.isScrolling = TRUE,
                 !.scrollSessionStartTime =
                     IF t.isScrolling THEN @ ELSE timestamp,
                 !.timeoutAt = clock + SCROLL_TIMEOUT]
  ELSE t

TT_processScrollEvent(t, deltaY, timestamp, clock) ==
  IF t.isPaused THEN t
  ELSE IF Abs(deltaY) > MIN_DELTA
       THEN [t EXCEPT !.isScrolling = TRUE,
                      !.scrollSessionStartTime =
                          IF t.isScrolling THEN @ ELSE timestamp,
                      !.timeoutAt = clock + SCROLL_TIMEOUT]
       ELSE t

\* variant: the callback credits the time since the burst start without
\* checking that a burst is open
TT_scrollTimeout_Unguarded(t, clock) ==
  [t EXCEPT !.scrollingTime = @ + (clock - t.scrollSessionStartTime),
            !.isScrolling = FALSE,
            !.scrollSessionStartTime = 0,
            !.timeoutAt = 0]

TT_scrollTimeout(t, clock) ==
  IF t.isScrolling /\ t.scrollSessionStartTime > 0
  THEN [t EXCEPT !.scrollingTime = @ + (clock - t.scrollSessionStartTime),
                 !.isScrolling = FALSE,
                 !.scrollSessionStartTime = 0,
                 !.timeoutAt = 0]
  ELSE [t EXCEPT !.timeoutAt = 0]

\* variant: touch samples are not ignored while paused
TT_processTouchEvent_WhilePaused(t, action, timestamp) ==
  IF action = "start"
  THEN IF ~t.isScrolling
       THEN [t EXCEPT !.isScrolling = TRUE, !.scrollSessionStartTime = timestamp]
       ELSE t
  ELSE IF action = "end" /\ t.isScrolling /\ t.scrollSessionStartTime > 0
       THEN [t EXCEPT !.scrollingTime = @ + (timestamp - t.scrollSessionStartTime),
                      !.isScrolling = FALSE,
                      !.scrollSessionStartTime = 0]
       ELSE t

TT_processTouchEvent(t, action, timestamp) ==
  IF t.isPaused THEN t
  ELSE IF action = "start"
       THEN IF ~t.isScrolling
            THEN [t EXCEPT !.isScrolling = TRUE,
                           !.scrollSessionStartTime = timestamp]
            ELSE t
       ELSE IF action = "end"
            THEN IF t.isScrolling /\ t.scrollSessionStartTime > 0
                 THEN [t EXCEPT !.scrollingTime =
                                    @ + (timestamp - t.scrollSessionStartTime),
                                !.isScrolling = FALSE,
                                !.scrollSessionStartTime = 0]
                 ELSE t
            ELSE t

\* variant: no early return when already paused
TT_pause_Unguarded(t, clock) ==
  LET closing == t.isScrolling /\ t.scrollSessionStartTime > 0
  IN [t EXCEPT !.isPaused = TRUE,
               !.pauseStartTime = clock,
               !.scrollingTime =
                   IF closing THEN @ + (clock - t.scrollSessionStartTime) ELSE @,
               !.isScrolling = IF closing THEN FALSE ELSE @,
               !.scrollSessionStartTime = IF closing THEN 0 ELSE @,
               !.timeoutAt = 0]

\* variant: pause credits the elapsed part of the burst but leaves the
\* burst open and its timeout pending
TT_pause_KeepsBurst(t, clock) ==
  IF t.isPaused THEN t
  ELSE LET closing == t.isScrolling /\ t.scrollSessionStartTime > 0
       IN [t EXCEPT !.isPaused = TRUE,
                    !.pauseStartTime = clock,
                    !.scrollingTime =
                        IF closing THEN @ + (clock - t.scrollSessionStartTime)
                        ELSE @]

TT_pause(t, clock) ==
  IF t.isPaused THEN t
  ELSE LET closing == t.isScrolling /\ t.scrollSessionStartTime > 0
       IN [t EXCEPT !.isPaused = TRUE,
                    !.pauseStartTime = clock,
                    !.scrollingTime =
                        IF closing THEN @ + (clock - t.scrollSessionStartTime)
                        ELSE @,
                    !.isScrolling = IF closing THEN FALSE ELSE @,
                    !.scrollSessionStartTime = IF closing THEN 0 ELSE @,
                    !.timeoutAt = 0]

\* variant: the pause that ends is not added to totalPausedTime
TT_resume_Forgetful(t, clock) ==
  IF ~t.isPaused THEN t
  ELSE [t EXCEPT !.isPaused = FALSE, !.pauseStartTime = 0]

TT_resume(t, clock) ==
  IF ~t.isPaused THEN t
  ELSE [t EXCEPT !.totalPausedTime = @ + (clock - t.pauseStartTime),
                 !.isPaused = FALSE,
                 !.pauseStartTime = 0]

\* variant: the pause in progress is not subtracted
TT_getCurrentMetrics_IgnoresOpenPause(t, clock) ==
  [scrollingTime |-> t.scrollingTime,
   totalTime |-> clock - t.sessionStartTime - t.totalPausedTime]

TT_getCurrentMetrics(t, clock) ==
  LET base == clock - t.sessionStartTime - t.totalPausedTime
      total == IF t.isPaused /\ t.pauseStartTime > 0
               THEN base - (clock - t.pauseStartTime)
               ELSE base
  IN [scrollingTime |-> t.scrollingTime, totalTime |-> total]

TT_reset(t, clock) == NewTimeTracker(clock)

----------------------------------------------------------------------------
(* A ScrollTracker on its own *)

STProcessScrollEvent ==
  \E y \in ScrollYs, d \in Deltas :
    /\ Len(fed) < MaxFed
    /\ st' = ST_processScrollEvent(st, y, d)
    /\ fed' = Append(fed, d)
    /\ lastOp' = << "scroll", d >>
    /\ UNCHANGED << now, env, globalVars, ttVars, ptVars, oldVars >>

STReset ==
  /\ st' = ST_reset(st)
  /\ fed' = << >>
  /\ lastOp' = << "reset" >>
  /\ UNCHANGED << now, env, globalVars, ttVars, ptVars, oldVars >>

----------------------------------------------------------------------------
(* A TimeTracker on its own *)

TTTick ==
  \E step \in {ShortStep, TickStep} :
  /\ now + step <= T0 + MaxTicksTT * TickStep
  /\ now' = now + step
  /\ ttRun' = IF ttHeld THEN ttRun ELSE ttRun + step
  /\ lastOp' = << "tick" >>
  /\ UNCHANGED << tt, ttHeld, ttLast, env, globalVars, stVars, ptVars, oldVars >>

TTProcessScrollEvent ==
  \E d \in Deltas :
    /\ tt' = TT_processScrollEvent(tt, d, now, now)
    /\ ttLast' = IF ~tt.isPaused /\ Abs(d) > MIN_DELTA THEN now ELSE ttLast
    /\ lastOp' = << "scroll", d >>
    /\ UNCHANGED << now, ttRun, ttHeld, env, globalVars, stVars, ptVars, oldVars >>

TTProcessTouchEvent ==
  \E a \in TouchActions :
    /\ tt' = TT_processTouchEvent(tt, a, now)
    /\ ttLast' = IF ~tt.isPaused THEN now ELSE ttLast
    /\ lastOp' = << "touch", a >>
    /\ UNCHANGED << now, ttRun, ttHeld, env, globalVars, stVars, ptVars, oldVars >>

TTScrollTimeout ==
  /\ tt.timeoutAt > 0
  /\ now >= tt.timeoutAt
  /\ tt' = TT_scrollTimeout(tt, now)
  /\ lastOp' = << "timeout" >>
  /\ UNCHANGED << now, ttRun, ttHeld, ttLast, env, globalVars, stVars, ptVars, oldVars >>

TTPause ==
  /\ tt' = TT_pause(tt, now)
  /\ ttHeld' = TRUE
  /\ lastOp' = << "pause" >>
  /\ UNCHANGED << now, ttRun, ttLast, env, globalVars, stVars, ptVars, oldVars >>

TTResume ==
  /\ tt' = TT_resume(tt, now)
  /\ ttHeld' = FALSE
  /\ lastOp' = << "resume" >>
  /\ UNCHANGED << now, ttRun, ttLast, env, globalVars, stVars, ptVars, oldVars >>

TTReset ==
  /\ tt' = TT_reset(tt, now)
  /\ ttHeld' = FALSE
  /\ ttRun' = 0
  /\ ttLast' = 0
  /\ lastOp' = << "reset" >>
  /\ UNCHANGED << now, env, globalVars, stVars, ptVars, oldVars >>

----------------------------------------------------------------------------
(* The global DomainStatsTracker.  Its handlers are operators over the     *)
(* record g of its fields, so that a handler that calls another one is the *)
(* composition of the two.                                                 *)

NoHost == << >>
Url(h) == [kind |-> "url", host |-> h]
UrlAbout == [kind |-> "about", host |-> NoHost]     \* 'about:blank', 'about:newtab'
UrlInvalid == [kind |-> "invalid", host |-> NoHost] \* new URL(url) throws
UrlEmpty == [kind |-> "empty", host |-> NoHost]     \* '' (!url)
\* 'file:///sdcard/a.html', 'data:text/html,x', 'about:config': new URL(url)
\* parses and its hostname is '', which split('.') turns into ['']
UrlNoHostname == Url(<< "" >>)
UrlsNonHttp == { UrlEmpty, UrlAbout, UrlInvalid, UrlNoHostname }
UrlsA == { UrlAbout, UrlInvalid, Url(<< "a", "com" >>), Url(<< "m", "a", "com" >>) }
UrlsAB == UrlsA \cup { Url(<< "b", "com" >>) }
A == << "a", "com" >>
B == << "b", "com" >>
WWWA == << "www", "a", "com" >>

\* The environments explored.  initPc is where initialize() stands when the
\* first event arrives: "loadStats" when the load is still pending, "done"
\* when it has completed (over an empty storage).
EnvOneTab ==
  [urls |-> UrlsA, tabs |-> {"t1"}, deltas |-> {-12}, scrollYs |-> {40},
   touches |-> {"start", "end"}, initPc |-> "loadStats"]
EnvTwoTabs ==
  [urls |-> UrlsA, tabs |-> {"t1", "t2"}, deltas |-> {-12}, scrollYs |-> {40},
   touches |-> {}, initPc |-> "loadStats"]
EnvTwoDomains ==
  [urls |-> UrlsAB, tabs |-> {"t1"}, deltas |-> {}, scrollYs |-> {40},
   touches |-> {}, initPc |-> "done"]
Envs == {EnvOneTab, EnvTwoTabs, EnvTwoDomains}
\* one tab that only shows pages that are not http(s) pages
EnvNonHttp ==
  [urls |-> UrlsNonHttp, tabs |-> {"t1"}, deltas |-> {-12}, scrollYs |-> {40},
   touches |-> {"start", "end"}, initPc |-> "loadStats"]

SYSTEM == << "system" >>
UNKNOWN == << "unknown" >>
secondLevelTLDs == {"co", "com", "org", "net", "ac", "gov", "edu", "mil"}

LastParts(parts, n) == SubSeq(parts, Len(parts) - n + 1, Len(parts))

extractDomain(url) ==
  IF url.kind = "empty" \/ url.kind = "about" THEN SYSTEM
  ELSE IF url.kind = "invalid" THEN UNKNOWN
  ELSE LET parts == url.host
       IN IF Len(parts) <= 1 THEN parts
          ELSE IF Len(parts) >= 3 /\ parts[Len(parts) - 1] \in secondLevelTLDs
               THEN LastParts(parts, 3)
               ELSE LastParts(parts, 2)

Reserved(domain) == domain = SYSTEM \/ domain = UNKNOWN

EmptyStorage == [stats |-> << >>, logs |-> << >>]

G == [domainStats |-> domainStats,
      activeTabsByDomain |-> activeTabsByDomain,
      activeSessions |-> activeSessions,
      sessionLogs |-> sessionLogs,
      isBackgrounded |-> isBackgrounded,
      initPc |-> initPc,
      storage |-> storage]

getOrCreateTracker(g, domain, clock) ==
  IF MapHas(g.domainStats, domain) THEN g
  ELSE [g EXCEPT !.domainStats =
          MapSet(@, domain, [scrollTracker |-> NewScrollTracker(0),
                             timeTracker |-> NewTimeTracker(clock),
                             lastVisited |-> clock])]

\* stats.sort((a, b) => b.lastVisited - a.lastVisited), a stable sort
RECURSIVE InsertByLastVisited(_, _)
InsertByLastVisited(sorted, e) ==
  IF sorted = << >> THEN << e >>
  ELSE IF Head(sorted).lastVisited >= e.lastVisited
       THEN << Head(sorted) >> \o InsertByLastVisited(Tail(sorted), e)
       ELSE << e >> \o sorted

RECURSIVE SortByLastVisited(_)
SortByLastVisited(stats) ==
  IF stats = << >> THEN << >>
  ELSE InsertByLastVisited(SortByLastVisited(SubSeq(stats, 1, Len(stats) - 1)),
                           stats[Len(stats)])

getAllStats(g, clock) ==
  SortByLastVisited(
    [i \in 1..Len(g.domainStats) |->
       [domain |-> g.domainStats[i].k,
        scrollMetrics |-> ST_getCurrentMetrics(g.domainStats[i].v.scrollTracker),
        timeMetrics |-> TT_getCurrentMetrics(g.domainStats[i].v.timeTracker, clock),
        lastVisited |-> g.domainStats[i].v.lastVisited]])

\* variant: save does not wait for the startup load
save_Uninitialized(g, clock) ==
  LET stats == getAllStats(g, clock)
  IN [g EXCEPT !.storage =
        [stats |-> IF Len(stats) > 0 THEN stats ELSE @.stats,
         logs |-> IF Len(g.sessionLogs) > 0 THEN g.sessionLogs ELSE @.logs]]

save(g, clock) ==
  IF g.initPc # "done" THEN g
  ELSE LET stats == getAllStats(g, clock)
       IN [g EXCEPT !.storage =
             [stats |-> IF Len(stats) > 0 THEN stats ELSE @.stats,
              logs |-> IF Len(g.sessionLogs) > 0 THEN g.sessionLogs ELSE @.logs]]

startSessionLog(g, domain, clock) ==
  LET g1 == getOrCreateTracker(g, domain, clock)
      tracker == MapGet(g1.domainStats, domain)
      scrollMetrics == ST_getCurrentMetrics(tracker.scrollTracker)
      timeMetrics == TT_getCurrentMetrics(tracker.timeTracker, clock)
  IN [g1 EXCEPT !.activeSessions =
        MapSet(@, domain, [startTime |-> clock,
                           startScroll |-> scrollMetrics.distancePixels,
                           startScrollTime |-> timeMetrics.scrollingTime,
                           startTotalTime |-> timeMetrics.totalTime])]

\* the SessionLog endSessionLog builds (times kept in epoch ms)
SessionLogOf(g, domain, clock) ==
  LET sessionStart == MapGet(g.activeSessions, domain)
      tracker == MapGet(g.domainStats, domain)
      scrollMetrics == ST_getCurrentMetrics(tracker.scrollTracker)
      timeMetrics == TT_getCurrentMetrics(tracker.timeTracker, clock)
  IN [domain |-> domain,
      startTime |-> sessionStart.startTime,
      endTime |-> clock,
      scrollDistance |-> scrollMetrics.distancePixels - sessionStart.startScroll,
      scrollTime |-> timeMetrics.scrollingTime - sessionStart.startScrollTime,
      totalTime |-> timeMetrics.totalTime - sessionStart.startTotalTime]

Significant(log) ==
  log.scrollDistance > MIN_SESSION_DISTANCE /\ log.totalTime > MIN_SESSION_TIME

\* variant: slice(0, n), which drops the newest entries
KeepLast_KeepsFirst(logs, n) ==
  IF Len(logs) > n THEN SubSeq(logs, 1, n) ELSE logs

KeepLast(logs, n) ==
  IF Len(logs) > n THEN SubSeq(logs, Len(logs) - n + 1, Len(logs)) ELSE logs

endSessionLog(g, domain, clock) ==
  IF ~MapHas(g.activeSessions, domain) THEN g
  ELSE IF ~MapHas(g.domainStats, domain) THEN g
  ELSE LET log == SessionLogOf(g, domain, clock)
       IN [g EXCEPT !.sessionLogs =
                      IF Significant(log)
                      THEN KeepLast(Append(@, log), MAX_SESSION_LOGS)
                      ELSE @,
                    !.activeSessions = MapDelete(@, domain)]

\* variant: the clock is paused but the session is left open
pauseDomainTracking_KeepsSession(g, domain, clock) ==
  IF MapHas(g.domainStats, domain)
  THEN LET tracker == MapGet(g.domainStats, domain)
       IN save([g EXCEPT !.domainStats =
                  MapSet(@, domain,
                         [tracker EXCEPT !.timeTracker = TT_pause(@, clock)])],
               clock)
  ELSE g

pauseDomainTracking(g, domain, clock) ==
  IF MapHas(g.domainStats, domain)
  THEN LET tracker == MapGet(g.domainStats, domain)
           g1 == [g EXCEPT !.domainStats =
                    MapSet(@, domain,
                           [tracker EXCEPT !.timeTracker = TT_pause(@, clock)])]
       IN save(endSessionLog(g1, domain, clock), clock)
  ELSE g

resumeDomainTracking(g, domain, clock) ==
  LET g1 == getOrCreateTracker(g, domain, clock)
      tracker == MapGet(g1.domainStats, domain)
      g2 == [g1 EXCEPT !.domainStats =
               MapSet(@, domain,
                      [tracker EXCEPT !.timeTracker = TT_resume(@, clock),
                                      !.lastVisited = clock])]
  IN startSessionLog(g2, domain, clock)

\* activeTabsByDomain.forEach((tabs, domain) => { if (tabs.size > 0) pauseDomainTracking(domain) })
RECURSIVE PauseEachActiveDomain(_, _, _)
PauseEachActiveDomain(g, i, clock) ==
  IF i > Len(g.activeTabsByDomain) THEN g
  ELSE LET e == g.activeTabsByDomain[i]
           g1 == IF Cardinality(e.v) > 0 THEN pauseDomainTracking(g, e.k, clock) ELSE g
       IN PauseEachActiveDomain(g1, i + 1, clock)

\* activeTabsByDomain.forEach((tabs, domain) => { if (tabs.size > 0) resumeDomainTracking(domain) })
RECURSIVE ResumeEachActiveDomain(_, _, _)
ResumeEachActiveDomain(g, i, clock) ==
  IF i > Len(g.activeTabsByDomain) THEN g
  ELSE LET e == g.activeTabsByDomain[i]
           g1 == IF Cardinality(e.v) > 0 THEN resumeDomainTracking(g, e.k, clock) ELSE g
       IN ResumeEachActiveDomain(g1, i + 1, clock)

\* variant: the isBackgrounded checks are missing
handleAppStateChange_Unguarded(g, nextAppState, clock) ==
  IF nextAppState = "background" \/ nextAppState = "inactive"
  THEN LET g1 == PauseEachActiveDomain(g, 1, clock)
       IN save([g1 EXCEPT !.isBackgrounded = TRUE], clock)
  ELSE IF nextAppState = "active"
       THEN LET g1 == ResumeEachActiveDomain(g, 1, clock)
            IN [g1 EXCEPT !.isBackgrounded = FALSE]
       ELSE g

handleAppStateChange(g, nextAppState, clock) ==
  IF nextAppState = "background" \/ nextAppState = "inactive"
  THEN IF ~g.isBackgrounded
       THEN LET g1 == PauseEachActiveDomain(g, 1, clock)
            IN save([g1 EXCEPT !.isBackgrounded = TRUE], clock)
       ELSE g
  ELSE IF nextAppState = "active"
       THEN IF g.isBackgrounded
            THEN LET g1 == ResumeEachActiveDomain(g, 1, clock)
                 IN [g1 EXCEPT !.isBackgrounded = FALSE]
            ELSE g
       ELSE g

\* variant: the reserved keys are not filtered out
processScrollEvent_Unfiltered(g, url, scrollY, deltaY, timestamp, clock) ==
  LET domain == extractDomain(url)
      g1 == getOrCreateTracker(g, domain, clock)
      tracker == MapGet(g1.domainStats, domain)
  IN [g1 EXCEPT !.domainStats =
        MapSet(@, domain,
          [scrollTracker |->
             ST_processScrollEvent(tracker.scrollTracker, scrollY, deltaY),
           timeTracker |->
             TT_processScrollEvent(tracker.timeTracker, deltaY, timestamp, clock),
           lastVisited |-> clock])]

processScrollEvent(g, url, scrollY, deltaY, timestamp, clock) ==
  LET domain == extractDomain(url)
  IN IF Reserved(domain) THEN g
     ELSE LET g1 == getOrCreateTracker(g, domain, clock)
              tracker == MapGet(g1.domainStats, domain)
          IN [g1 EXCEPT !.domainStats =
                MapSet(@, domain,
                  [scrollTracker |->
                     ST_processScrollEvent(tracker.scrollTracker, scrollY, deltaY),
                   timeTracker |->
                     TT_processScrollEvent(tracker.timeTracker, deltaY, timestamp, clock),
                   lastVisited |-> clock])]

processTouchEvent(g, url, action, timestamp, clock) ==
  LET domain == extractDomain(url)
  IN IF Reserved(domain) THEN g
     ELSE LET g1 == getOrCreateTracker(g, domain, clock)
              tracker == MapGet(g1.domainStats, domain)
          IN [g1 EXCEPT !.domainStats =
                MapSet(@, domain,
                  [tracker EXCEPT !.timeTracker =
                     TT_processTouchEvent(@, action, timestamp)])]

\* activeTabsByDomain.get(domain), created empty when absent
WithTabSet(g, domain) ==
  IF MapHas(g.activeTabsByDomain, domain) THEN g
  ELSE [g EXCEPT !.activeTabsByDomain = MapSet(@, domain, {})]

\* variant: the tracker is paused even when other tabs are still active
pause_AnyTab(g, url, tabId, clock) ==
  LET domain == extractDomain(url)
  IN IF Reserved(domain) THEN g
     ELSE LET g1 == WithTabSet(g, domain)
              activeTabs == MapGet(g1.activeTabsByDomain, domain) \ {tabId}
              g2 == [g1 EXCEPT !.activeTabsByDomain = MapSet(@, domain, activeTabs)]
          IN IF ~g2.isBackgrounded
             THEN pauseDomainTracking(g2, domain, clock)
             ELSE g2

\* variant: a consumer counter instead of a set of tab ids: a pause by a
\* tab that is not active still takes one consumer away
pause_Counting(g, url, tabId, clock) ==
  LET domain == extractDomain(url)
  IN IF Reserved(domain) THEN g
     ELSE LET g1 == WithTabSet(g, domain)
              tabs == MapGet(g1.activeTabsByDomain, domain)
              activeTabs == IF tabId \in tabs \/ tabs = {} THEN tabs \ {tabId}
                            ELSE tabs \ {CHOOSE t \in tabs : TRUE}
              g2 == [g1 EXCEPT !.activeTabsByDomain = MapSet(@, domain, activeTabs)]
          IN IF Cardinality(activeTabs) = 0 /\ ~g2.isBackgrounded
             THEN pauseDomainTracking(g2, domain, clock)
             ELSE g2

pause(g, url, tabId, clock) ==
  LET domain == extractDomain(url)
  IN IF Reserved(domain) THEN g
     ELSE LET g1 == WithTabSet(g, domain)
              activeTabs == MapGet(g1.activeTabsByDomain, domain) \ {tabId}
              g2 == [g1 EXCEPT !.activeTabsByDomain = MapSet(@, domain, activeTabs)]
          IN IF Cardinality(activeTabs) = 0 /\ ~g2.isBackgrounded
             THEN pauseDomainTracking(g2, domain, clock)
             ELSE g2

\* variant: every resume in the foreground starts the domain's tracking anew
resume_AlwaysRestarts(g, url, tabId, clock) ==
  LET domain == extractDomain(url)
  IN IF Reserved(domain) THEN g
     ELSE LET g1 == WithTabSet(g, domain)
              activeTabs == MapGet(g1.activeTabsByDomain, domain) \cup {tabId}
              g2 == [g1 EXCEPT !.activeTabsByDomain = MapSet(@, domain, activeTabs)]
          IN IF ~g2.isBackgrounded
             THEN resumeDomainTracking(g2, domain, clock)
             ELSE g2

resume(g, url, tabId, clock) ==
  LET domain == extractDomain(url)
  IN IF Reserved(domain) THEN g
     ELSE LET g1 == WithTabSet(g, domain)
              activeTabs == MapGet(g1.activeTabsByDomain, domain) \cup {tabId}
              g2 == [g1 EXCEPT !.activeTabsByDomain = MapSet(@, domain, activeTabs)]
          IN IF ~g2.isBackgrounded
             THEN IF ~MapHas(g2.activeSessions, domain)
                  THEN resumeDomainTracking(g2, domain, clock)
                  ELSE LET g3 == getOrCreateTracker(g2, domain, clock)
                           tracker == MapGet(g3.domainStats, domain)
                       IN [g3 EXCEPT !.domainStats =
                             MapSet(@, domain, [tracker EXCEPT !.lastVisited = clock])]
             ELSE g2

\* BrowserStorage.loadStats / loadSessionLogs: the stored array, [] when nothing is stored
BrowserStorage_loadStats(stored) == stored.stats
BrowserStorage_loadSessionLogs(stored) == stored.logs

\* new TimeTracker(scrollingTime, totalTime): the constructor takes no parameters
RestoredTimeTracker(scrollingTime, totalTime, clock) == NewTimeTracker(clock)

\* first part of initialize(): up to the second await
RECURSIVE RestoreStats(_, _, _, _)
RestoreStats(g, stats, i, clock) ==
  IF i > Len(stats) THEN g
  ELSE LET stat == stats[i]
           g1 == IF stat.domain # << >> /\ stat.domain # << "" >>
                 THEN [g EXCEPT !.domainStats =
                         MapSet(@, stat.domain,
                           [scrollTracker |->
                              NewScrollTracker(stat.scrollMetrics.distancePixels),
                            timeTracker |->
                              RestoredTimeTracker(stat.timeMetrics.scrollingTime,
                                                  stat.timeMetrics.totalTime, clock),
                            lastVisited |->
                              IF stat.lastVisited # 0 THEN stat.lastVisited ELSE clock])]
                 ELSE g
       IN RestoreStats(g1, stats, i + 1, clock)

initializeStats(g, clock) ==
  [RestoreStats(g, BrowserStorage_loadStats(g.storage), 1, clock)
     EXCEPT !.initPc = "loadLogs"]

\* second part of initialize(): after loadSessionLogs resolves
initializeLogs(g) ==
  [g EXCEPT !.sessionLogs = BrowserStorage_loadSessionLogs(g.storage),
            !.initPc = "done"]

clearAllData(g, clock) ==
  save([g EXCEPT !.sessionLogs = << >>,
                 !.domainStats = << >>,
                 !.activeSessions = << >>,
                 !.activeTabsByDomain = << >>,
                 !.storage = EmptyStorage], clock)

----------------------------------------------------------------------------
(* Steps of the global DomainStatsTracker *)

Apply(g) ==
  /\ domainStats' = g.domainStats
  /\ activeTabsByDomain' = g.activeTabsByDomain
  /\ activeSessions' = g.activeSessions
  /\ sessionLogs' = g.sessionLogs
  /\ isBackgrounded' = g.isBackgrounded
  /\ initPc' = g.initPc
  /\ storage' = g.storage

\* lastOp names the last handler that changed the tracker or its storage
Handle(label, g) ==
  /\ Apply(g)
  /\ lastOp' = IF g = G THEN lastOp ELSE label

Distance(g, domain) ==
  IF MapHas(g.domainStats, domain)
  THEN MapGet(g.domainStats, domain).scrollTracker.totalScrollPoints
  ELSE 0

Tick ==
  /\ now + TickStep <= T0 + MaxTicks * TickStep
  /\ now' = now + TickStep
  /\ lastOp' = lastOp
  /\ UNCHANGED << env, globalVars, ttVars, stVars, ptVars, oldVars >>

ProcessScrollEvent ==
  \E url \in env.urls, y \in env.scrollYs, d \in env.deltas :
    /\ Distance(G, extractDomain(url)) + Abs(d) <= MaxDist
    /\ Handle(<< "scroll", extractDomain(url) >>, processScrollEvent(G, url, y, d, now, now))
    /\ UNCHANGED << now, env, restarts, ttVars, stVars, ptVars, oldVars >>

ProcessTouchEvent ==
  \E url \in env.urls, a \in env.touches :
    /\ Handle(<< "touch", extractDomain(url) >>, processTouchEvent(G, url, a, now, now))
    /\ UNCHANGED << now, env, restarts, ttVars, stVars, ptVars, oldVars >>

Pause ==
  \E url \in env.urls, tabId \in env.tabs :
    /\ Handle(<< "pause", extractDomain(url), tabId >>, pause(G, url, tabId, now))
    /\ UNCHANGED << now, env, restarts, ttVars, stVars, ptVars, oldVars >>

Resume ==
  \E url \in env.urls, tabId \in env.tabs :
    /\ Handle(<< "resume", extractDomain(url), tabId >>, resume(G, url, tabId, now))
    /\ UNCHANGED << now, env, restarts, ttVars, stVars, ptVars, oldVars >>

HandleAppStateChange ==
  \E nextAppState \in {"active", "inactive", "background"} :
    /\ Handle(<< "appState", nextAppState >>, handleAppStateChange(G, nextAppState, now))
    /\ UNCHANGED << now, env, restarts, ttVars, stVars, ptVars, oldVars >>

\* the setInterval callback of the constructor
SaveInterval ==
  /\ Handle(<< "save" >>, save(G, now))
  /\ UNCHANGED << now, env, restarts, ttVars, stVars, ptVars, oldVars >>

\* the setTimeout callback armed by the TimeTracker of a domain
ScrollTimeout ==
  \E i \in 1..Len(domainStats) :
    LET tracker == domainStats[i].v
    IN /\ tracker.timeTracker.timeoutAt > 0
       /\ now >= tracker.timeTracker.timeoutAt
       /\ domainStats' = [domainStats EXCEPT ![i].v.timeTracker =
                            TT_scrollTimeout(@, now)]
       /\ lastOp' = << "timeout", domainStats[i].k >>
       /\ UNCHANGED << now, env, activeTabsByDomain, activeSessions, sessionLogs,
                       isBackgrounded, initPc, storage, restarts, ttVars, stVars, ptVars, oldVars >>

InitializeStats ==
  /\ initPc = "loadStats"
  /\ Handle(<< "loadStats" >>, initializeStats(G, now))
  /\ UNCHANGED << now, env, restarts, ttVars, stVars, ptVars, oldVars >>

InitializeLogs ==
  /\ initPc = "loadLogs"
  /\ Handle(<< "loadLogs" >>, initializeLogs(G))
  /\ UNCHANGED << now, env, restarts, ttVars, stVars, ptVars, oldVars >>

ClearAllData ==
  /\ Handle(<< "clearAllData" >>, clearAllData(G, now))
  /\ UNCHANGED << now, env, restarts, ttVars, stVars, ptVars, oldVars >>

\* the process ends and the app starts again: a fresh DomainStatsTracker
\* over the storage the previous run left
Restart ==
  /\ restarts < MaxRestarts
  /\ restarts' = restarts + 1
  /\ domainStats' = << >>
  /\ activeTabsByDomain' = << >>
  /\ activeSessions' = << >>
  /\ sessionLogs' = << >>
  /\ isBackgrounded' = FALSE
  /\ initPc' = "loadStats"
  /\ lastOp' = << "restart" >>
  /\ UNCHANGED << now, env, storage, ttVars, stVars, ptVars, oldVars >>

----------------------------------------------------------------------------
(* The session-less DomainStatsTracker that follows one tab                *)
(* (src/src/trackers/DomainStatsTracker.ts).  Its handlers are operators   *)
(* over the record p of its fields; null is the empty sequence.            *)

Null == << >>
\* if (this.currentDomain): null and '' are falsy
Truthy(domain) == domain # Null /\ domain # << "" >>

PT == [domainStats |-> ptDomainStats, currentDomain |-> currentDomain]

\* new URL('') throws; 'about:blank' parses and has the hostname ''
PT_extractDomain(url) ==
  IF url.kind = "invalid" \/ url.kind = "empty" THEN UNKNOWN
  ELSE IF url.kind = "about" THEN << "" >>
  ELSE IF Len(url.host) >= 2 /\ url.host[1] = "www" THEN Tail(url.host)
  ELSE url.host

PT_getOrCreateTracker(p, domain, clock) ==
  IF MapHas(p.domainStats, domain) THEN p
  ELSE [p EXCEPT !.domainStats =
          MapSet(@, domain, [scrollTracker |-> NewScrollTracker(0),
                             timeTracker |-> NewTimeTracker(clock),
                             lastVisited |-> clock])]

PT_switchDomain(p, url, clock) ==
  LET newDomain == PT_extractDomain(url)
  IN IF p.currentDomain = newDomain THEN p
     ELSE LET p1 == IF Truthy(p.currentDomain) /\ MapHas(p.domainStats, p.currentDomain)
                    THEN LET prevTracker == MapGet(p.domainStats, p.currentDomain)
                         IN [p EXCEPT !.domainStats =
                               MapSet(@, p.currentDomain,
                                 [prevTracker EXCEPT !.timeTracker = TT_pause(@, clock)])]
                    ELSE p
              p2 == PT_getOrCreateTracker(p1, newDomain, clock)
              newTracker == MapGet(p2.domainStats, newDomain)
          IN [p2 EXCEPT !.domainStats =
                          MapSet(@, newDomain,
                            [newTracker EXCEPT !.timeTracker = TT_resume(@, clock),
                                               !.lastVisited = clock]),
                        !.currentDomain = newDomain]

PT_processScrollEvent(p, scrollY, deltaY, timestamp, clock) ==
  IF ~Truthy(p.currentDomain) THEN p
  ELSE IF ~MapHas(p.domainStats, p.currentDomain) THEN p
  ELSE LET tracker == MapGet(p.domainStats, p.currentDomain)
       IN [p EXCEPT !.domainStats =
             MapSet(@, p.currentDomain,
               [scrollTracker |->
                  ST_processScrollEvent(tracker.scrollTracker, scrollY, deltaY),
                timeTracker |->
                  TT_processScrollEvent(tracker.timeTracker, deltaY, timestamp, clock),
                lastVisited |-> clock])]

PT_processTouchEvent(p, action, timestamp) ==
  IF ~Truthy(p.currentDomain) THEN p
  ELSE IF ~MapHas(p.domainStats, p.currentDomain) THEN p
  ELSE LET tracker == MapGet(p.domainStats, p.currentDomain)
       IN [p EXCEPT !.domainStats =
             MapSet(@, p.currentDomain,
               [tracker EXCEPT !.timeTracker =
                  TT_processTouchEvent(@, action, timestamp)])]

PT_pause(p, clock) ==
  IF ~Truthy(p.currentDomain) THEN p
  ELSE IF ~MapHas(p.domainStats, p.currentDomain) THEN p
  ELSE LET tracker == MapGet(p.domainStats, p.currentDomain)
       IN [p EXCEPT !.domainStats =
             MapSet(@, p.currentDomain,
               [tracker EXCEPT !.timeTracker = TT_pause(@, clock)])]

PT_resume(p, clock) ==
  IF ~Truthy(p.currentDomain) THEN p
  ELSE IF ~MapHas(p.domainStats, p.currentDomain) THEN p
  ELSE LET tracker == MapGet(p.domainStats, p.currentDomain)
       IN [p EXCEPT !.domainStats =
             MapSet(@, p.currentDomain,
               [tracker EXCEPT !.timeTracker = TT_resume(@, clock)])]

PT_getAllStats(p, clock) ==
  [i \in 1..Len(p.domainStats) |->
     [domain |-> p.domainStats[i].k,
      scrollMetrics |-> ST_getCurrentMetrics(p.domainStats[i].v.scrollTracker),
      timeMetrics |-> TT_getCurrentMetrics(p.domainStats[i].v.timeTracker, clock),
      lastVisited |-> p.domainStats[i].v.lastVisited]]

(* Steps of the per-tab tracker *)

PTHandle(label, p) ==
  /\ ptDomainStats' = p.domainStats
  /\ currentDomain' = p.currentDomain
  /\ lastOp' = IF p = PT THEN lastOp ELSE label

PTDistance(p) ==
  IF Truthy(p.currentDomain) /\ MapHas(p.domainStats, p.currentDomain)
  THEN MapGet(p.domainStats, p.currentDomain).scrollTracker.totalScrollPoints
  ELSE 0

PTSwitchDomain ==
  \E url \in env.ptUrls :
    /\ PTHandle(<< "switchDomain", PT_extractDomain(url) >>, PT_switchDomain(PT, url, now))
    /\ UNCHANGED << now, env, ptHeld, globalVars, ttVars, stVars, oldVars >>

PTProcessScrollEvent ==
  \E y \in env.scrollYs, d \in env.deltas :
    /\ env.ptUrls # {}
    /\ PTDistance(PT) + Abs(d) <= MaxDist
    /\ PTHandle(<< "scroll" >>, PT_processScrollEvent(PT, y, d, now, now))
    /\ UNCHANGED << now, env, ptHeld, globalVars, ttVars, stVars, oldVars >>

PTProcessTouchEvent ==
  \E a \in env.touches :
    /\ env.ptUrls # {}
    /\ PTHandle(<< "touch", a >>, PT_processTouchEvent(PT, a, now))
    /\ UNCHANGED << now, env, ptHeld, globalVars, ttVars, stVars, oldVars >>

PTPause ==
  /\ env.ptUrls # {}
  /\ PTHandle(<< "pause" >>, PT_pause(PT, now))
  /\ ptHeld' = TRUE
  /\ UNCHANGED << now, env, globalVars, ttVars, stVars, oldVars >>

PTResume ==
  /\ env.ptUrls # {}
  /\ PTHandle(<< "resume" >>, PT_resume(PT, now))
  /\ ptHeld' = FALSE
  /\ UNCHANGED << now, env, globalVars, ttVars, stVars, oldVars >>

\* the setTimeout callback armed by the TimeTracker of a domain
PTScrollTimeout ==
  \E i \in 1..Len(ptDomainStats) :
    LET tracker == ptDomainStats[i].v
    IN /\ tracker.timeTracker.timeoutAt > 0
       /\ now >= tracker.timeTracker.timeoutAt
       /\ ptDomainStats' = [ptDomainStats EXCEPT ![i].v.timeTracker =
                              TT_scrollTimeout(@, now)]
       /\ lastOp' = << "timeout", ptDomainStats[i].k >>
       /\ UNCHANGED << now, env, currentDomain, ptHeld, globalVars, ttVars, stVars, oldVars >>

----------------------------------------------------------------------------
(* The original TimeTracker (src/src/trackers/TimeTracker.ts), which has   *)
(* no pause: active time from the gaps between scroll samples and from     *)
(* touch gestures, passive time as the rest.                               *)

NewOldTimeTracker(t) ==
  [sessionStartTime |-> t, activeScrollTime |-> 0, passiveViewTime |-> 0,
   lastScrollTime |-> 0, isScrolling |-> FALSE, timeoutAt |-> 0]

OTT_processScrollEvent(t, deltaY, timestamp, clock) ==
  IF Abs(deltaY) > OTT_MIN_DELTA
  THEN LET timeSinceLastScroll ==
             IF t.lastScrollTime > 0 THEN timestamp - t.lastScrollTime ELSE 0
       IN [t EXCEPT !.isScrolling = TRUE,
                    !.activeScrollTime =
                        IF timeSinceLastScroll > 0
                           /\ timeSinceLastScroll <= OTT_SCROLL_TIMEOUT
                        THEN @ + timeSinceLastScroll ELSE @,
                    !.lastScrollTime = timestamp,
                    !.timeoutAt = clock + OTT_SCROLL_TIMEOUT]
  ELSE t

OTT_scrollTimeout(t) == [t EXCEPT !.isScrolling = FALSE, !.timeoutAt = 0]

OTT_processTouchEvent(t, action, timestamp) ==
  IF action = "start"
  THEN IF ~t.isScrolling
       THEN [t EXCEPT !.isScrolling = TRUE, !.lastScrollTime = timestamp]
       ELSE t
  ELSE IF action = "end"
       THEN IF t.isScrolling /\ t.lastScrollTime > 0
            THEN [t EXCEPT !.activeScrollTime = @ + (timestamp - t.lastScrollTime),
                           !.isScrolling = FALSE]
            ELSE t
       ELSE t

Max(a, b) == IF a >= b THEN a ELSE b

OTT_getCurrentMetrics(t, clock) ==
  LET totalTime == clock - t.sessionStartTime
  IN [activeScrollTime |-> t.activeScrollTime,
      passiveViewTime |-> Max(0, totalTime - t.activeScrollTime),
      totalTime |-> totalTime]

OTT_reset(t, clock) == NewOldTimeTracker(clock)

(* Steps of the original TimeTracker on its own *)

OldTick ==
  /\ now + OldStep <= T0 + MaxTicksOld * OldStep
  /\ now' = now + OldStep
  /\ lastOp' = << "tick" >>
  /\ UNCHANGED << env, globalVars, ttVars, stVars, ptVars, oldVars >>

OTTProcessScrollEvent ==
  \E d \in Deltas :
    /\ ott' = OTT_processScrollEvent(ott, d, now, now)
    /\ lastOp' = << "scroll", d >>
    /\ UNCHANGED << now, env, globalVars, ttVars, stVars, ptVars, dsm >>

OTTProcessTouchEvent ==
  \E a \in TouchActions :
    /\ ott' = OTT_processTouchEvent(ott, a, now)
    /\ lastOp' = << "touch", a >>
    /\ UNCHANGED << now, env, globalVars, ttVars, stVars, ptVars, dsm >>

OTTScrollTimeout ==
  /\ ott.timeoutAt > 0
  /\ now >= ott.timeoutAt
  /\ ott' = OTT_scrollTimeout(ott)
  /\ lastOp' = << "timeout" >>
  /\ UNCHANGED << now, env, globalVars, ttVars, stVars, ptVars, dsm >>

OTTReset ==
  /\ ott' = OTT_reset(ott, now)
  /\ lastOp' = << "reset" >>
  /\ UNCHANGED << now, env, globalVars, ttVars, stVars, ptVars, dsm >>

----------------------------------------------------------------------------
(* The DomainSessionManager (src/src/trackers/DomainSessionManager.ts):    *)
(* one ScrollTracker and one original TimeTracker, reset for each session. *)
(* A session's endTime is 0 while it is undefined.                         *)

DSM_extractDomain(url) ==
  IF url.kind = "invalid" \/ url.kind = "empty" THEN UNKNOWN
  ELSE IF url.kind = "about" THEN << "" >>
  ELSE IF Len(url.host) >= 2 /\ url.host[1] = "www" THEN Tail(url.host)
  ELSE url.host

NewDomainSessionManager(clock) ==
  [currentSession |-> Null, sessions |-> << >>,
   scrollTracker |-> NewScrollTracker(0),
   timeTracker |-> NewOldTimeTracker(clock)]

DSM_endCurrentSession(m, clock) ==
  IF m.currentSession = Null THEN m
  ELSE LET ended == [m.currentSession EXCEPT
                       !.endTime = clock,
                       !.scrollMetrics = ST_getCurrentMetrics(m.scrollTracker),
                       !.timeMetrics = OTT_getCurrentMetrics(m.timeTracker, clock)]
       IN [m EXCEPT !.sessions = Append(@, ended), !.currentSession = Null]

DSM_startSession(m, url, clock) ==
  LET m1 == IF m.currentSession # Null THEN DSM_endCurrentSession(m, clock) ELSE m
  IN [m1 EXCEPT
        !.scrollTracker = ST_reset(@),
        !.timeTracker = OTT_reset(@, clock),
        !.currentSession =
           [domain |-> DSM_extractDomain(url),
            startTime |-> clock,
            endTime |-> 0,
            scrollMetrics |-> [distancePixels |-> 0],
            timeMetrics |-> [activeScrollTime |-> 0, passiveViewTime |-> 0,
                             totalTime |-> 0],
            url |-> url]]

\* currentDomain && currentDomain !== newDomain: undefined and '' are falsy
DSM_handleUrlChange(m, newUrl, clock) ==
  LET newDomain == DSM_extractDomain(newUrl)
      current == IF m.currentSession = Null THEN Null ELSE m.currentSession.domain
  IN IF Truthy(current) /\ current # newDomain
     THEN DSM_startSession(m, newUrl, clock)
     ELSE IF m.currentSession = Null
          THEN DSM_startSession(m, newUrl, clock)
          ELSE m

DSM_processScrollEvent(m, scrollY, deltaY, timestamp, clock) ==
  IF m.currentSession = Null THEN m
  ELSE LET s1 == ST_processScrollEvent(m.scrollTracker, scrollY, deltaY)
           t1 == OTT_processScrollEvent(m.timeTracker, deltaY, timestamp, clock)
       IN [m EXCEPT !.scrollTracker = s1,
                    !.timeTracker = t1,
                    !.currentSession.scrollMetrics = ST_getCurrentMetrics(s1),
                    !.currentSession.timeMetrics = OTT_getCurrentMetrics(t1, clock)]

DSM_processTouchEvent(m, action, timestamp, clock) ==
  IF m.currentSession = Null THEN m
  ELSE LET t1 == OTT_processTouchEvent(m.timeTracker, action, timestamp)
       IN [m EXCEPT !.timeTracker = t1,
                    !.currentSession.timeMetrics = OTT_getCurrentMetrics(t1, clock)]

(* Steps of the DomainSessionManager *)

DsmUrls == { UrlAbout, Url(A), Url(WWWA), Url(B) }

DSMHandleUrlChange ==
  \E url \in DsmUrls :
    /\ Len(dsm.sessions) < MaxSessions
    /\ dsm' = DSM_handleUrlChange(dsm, url, now)
    /\ lastOp' = << "urlChange", url >>
    /\ UNCHANGED << now, env, globalVars, ttVars, stVars, ptVars, ott >>

DSMProcessScrollEvent ==
  \E y \in ScrollYs, d \in {-12} :
    /\ dsm.scrollTracker.totalScrollPoints + Abs(d) <= MaxDist
    /\ dsm' = DSM_processScrollEvent(dsm, y, d, now, now)
    /\ lastOp' = << "scroll", d >>
    /\ UNCHANGED << now, env, globalVars, ttVars, stVars, ptVars, ott >>

DSMProcessTouchEvent ==
  \E a \in TouchActions :
    /\ dsm' = DSM_processTouchEvent(dsm, a, now, now)
    /\ lastOp' = << "touch", a >>
    /\ UNCHANGED << now, env, globalVars, ttVars, stVars, ptVars, ott >>

DSMScrollTimeout ==
  /\ dsm.timeTracker.timeoutAt > 0
  /\ now >= dsm.timeTracker.timeoutAt
  /\ dsm' = [dsm EXCEPT !.timeTracker = OTT_scrollTimeout(@)]
  /\ lastOp' = << "timeout" >>
  /\ UNCHANGED << now, env, globalVars, ttVars, stVars, ptVars, ott >>

----------------------------------------------------------------------------
(* Specifications *)

InitTrackers ==
  /\ now = T0
  /\ lastOp = << "new" >>
  /\ domainStats = << >>
  /\ activeTabsByDomain = << >>
  /\ activeSessions = << >>
  /\ isBackgrounded = FALSE
  /\ restarts = 0
  /\ tt = NewTimeTracker(T0)
  /\ ttRun = 0
  /\ ttHeld = FALSE
  /\ ttLast = 0
  /\ st = NewScrollTracker(0)
  /\ fed = << >>
  /\ ptDomainStats = << >>
  /\ currentDomain = << >>
  /\ ptHeld = FALSE
  /\ ott = NewOldTimeTracker(T0)
  /\ dsm = NewDomainSessionManager(T0)

InitCommon ==
  /\ InitTrackers
  /\ sessionLogs = << >>
  /\ storage = EmptyStorage

Init ==
  /\ env \in Envs
  /\ initPc = env.initPc
  /\ InitCommon

Next ==
  \/ Tick
  \/ ProcessScrollEvent
  \/ ProcessTouchEvent
  \/ Pause
  \/ Resume
  \/ HandleAppStateChange
  \/ SaveInterval
  \/ ScrollTimeout
  \/ InitializeStats
  \/ InitializeLogs
  \/ ClearAllData

Spec == Init /\ [][Next]_vars

\* the same tracker with one tab, across a restart of the process
InitRestart ==
  /\ env = EnvOneTab
  /\ initPc = env.initPc
  /\ InitCommon

NextRestart == Next \/ Restart

SpecRestart == InitRestart /\ [][NextRestart]_vars

\* the same tracker with one tab that shows no http(s) page
InitNonHttp ==
  /\ env = EnvNonHttp
  /\ initPc = env.initPc
  /\ InitCommon

SpecNonHttp == InitNonHttp /\ [][Next]_vars

\* Both DomainStatsTrackers, each in an environment of its own: the per-tab
\* tracker following one tab, the global tracker with two tabs on URLs of
\* one key.
EnvPerTab ==
  [urls |-> {}, tabs |-> {}, deltas |-> {-12}, scrollYs |-> {40},
   touches |-> {"start", "end"}, initPc |-> "done",
   ptUrls |-> { Url(A), Url(WWWA), Url(B) }]
EnvSameKey ==
  [urls |-> { Url(A), Url(<< "m", "a", "com" >>) }, tabs |-> {"t1", "t2"},
   deltas |-> {}, scrollYs |-> {}, touches |-> {}, initPc |-> "done",
   ptUrls |-> {}]

InitPerTab ==
  /\ env \in {EnvPerTab, EnvSameKey}
  /\ initPc = env.initPc
  /\ InitCommon

NextPerTab ==
  \/ Tick
  \/ Pause
  \/ Resume
  \/ HandleAppStateChange
  \/ PTSwitchDomain
  \/ PTProcessScrollEvent
  \/ PTProcessTouchEvent
  \/ PTPause
  \/ PTResume
  \/ PTScrollTimeout

SpecPerTab == InitPerTab /\ [][NextPerTab]_vars

\* The tracker when initialize() has completed over a storage that holds a
\* session log at, or a few entries below, its capacity (the log of earlier
\* runs, one significant session of a.com per entry, oldest first).
StoredLog(i) ==
  [domain |-> A,
   startTime |-> i - 2 * MAX_SESSION_LOGS,
   endTime |-> i - 2 * MAX_SESSION_LOGS + MIN_SESSION_TIME + 1,
   scrollDistance |-> MIN_SESSION_DISTANCE + 1,
   scrollTime |-> 0,
   totalTime |-> MIN_SESSION_TIME + 1]
StoredLogs(n) == [i \in 1..n |-> StoredLog(i)]

EnvLog ==
  [urls |-> { Url(A) }, tabs |-> {"t1"}, deltas |-> {-12}, scrollYs |-> {40},
   touches |-> {}, initPc |-> "done"]

InitLog ==
  /\ env = EnvLog
  /\ initPc = env.initPc
  /\ InitTrackers
  /\ \E n \in (MAX_SESSION_LOGS - StoredSlack)..MAX_SESSION_LOGS :
       /\ storage = [stats |-> << >>, logs |-> StoredLogs(n)]
       /\ sessionLogs = BrowserStorage_loadSessionLogs(storage)

NextLog ==
  \/ Tick
  \/ ProcessScrollEvent
  \/ Pause
  \/ Resume

SpecLog == InitLog /\ [][NextLog]_vars

\* The tracker with one tab that shows a host H and the host www.H, for
\* every hostname H of two to MaxLabels labels.
Labels == {"a", "co", "uk"}
RECURSIVE HostsOfLen(_)
HostsOfLen(n) ==
  IF n = 0 THEN { << >> }
  ELSE { << l >> \o h : l \in Labels, h \in HostsOfLen(n - 1) }
Hostnames == UNION { HostsOfLen(n) : n \in 2..MaxLabels }
Www(host) == << "www" >> \o host

EnvHost(host) ==
  [urls |-> { Url(host), Url(Www(host)) }, tabs |-> {"t1"}, deltas |-> {},
   scrollYs |-> {}, touches |-> {}, initPc |-> "done"]

InitWww ==
  /\ env \in { EnvHost(host) : host \in Hostnames }
  /\ initPc = env.initPc
  /\ InitCommon

NextWww ==
  \/ Tick
  \/ Pause
  \/ Resume

SpecWww == InitWww /\ [][NextWww]_vars

NextOTT ==
  \/ OldTick
  \/ OTTProcessScrollEvent
  \/ OTTProcessTouchEvent
  \/ OTTScrollTimeout
  \/ OTTReset

SpecOTT == InitRestart /\ [][NextOTT]_vars

\* the startup load against the handlers that save
NextLoad ==
  \/ Tick
  \/ ProcessScrollEvent
  \/ Pause
  \/ Resume
  \/ HandleAppStateChange
  \/ SaveInterval
  \/ InitializeStats
  \/ InitializeLogs
  \/ ClearAllData
  \/ Restart

SpecLoad == InitRestart /\ [][NextLoad]_vars

NextDSM ==
  \/ OldTick
  \/ DSMHandleUrlChange
  \/ DSMProcessScrollEvent
  \/ DSMProcessTouchEvent
  \/ DSMScrollTimeout

SpecDSM == InitRestart /\ [][NextDSM]_vars

NextTT ==
  \/ TTTick
  \/ TTProcessScrollEvent
  \/ TTProcessTouchEvent
  \/ TTScrollTimeout
  \/ TTPause
  \/ TTResume
  \/ TTReset

SpecTT == InitRestart /\ [][NextTT]_vars

NextST ==
  \/ STProcessScrollEvent
  \/ STReset

SpecST == InitRestart /\ [][NextST]_vars

----------------------------------------------------------------------------
(* Properties *)

Domains == {A, B}
AllTabs == {"t1", "t2"}

TabsOf(domain) ==
  IF MapHas(activeTabsByDomain, domain) THEN MapGet(activeTabsByDomain, domain)
  ELSE {}
HasTracker(domain) == MapHas(domainStats, domain)
ClockOf(domain) == MapGet(domainStats, domain).timeTracker
Running(domain) == HasTracker(domain) /\ ~ClockOf(domain).isPaused
SessionOpen(domain) == MapHas(activeSessions, domain)
\* a log entry for the domain is appended by the step
Appended(domain) ==
  \E i \in (Len(sessionLogs) + 1)..Len(sessionLogs') :
    sessionLogs'[i].domain = domain
\* the step closes the session of the domain through endSessionLog
ClosesSession(domain) ==
  SessionOpen(domain) /\ ~SessionOpen(domain)' /\ HasTracker(domain)'

\* C1: in the foreground a domain with an active tab has a running clock and
\* an open session; a pause that leaves another tab active on the domain
\* changes neither the clock nor the session nor the log; the pause that
\* empties the active-tab set pauses the clock, ends the session and appends
\* at most one log entry.
C1_Step ==
  (~isBackgrounded /\ ~isBackgrounded') =>
    \A d \in Domains :
      /\ TabsOf(d)' # {} => (Running(d)' /\ SessionOpen(d)')
      /\ (TabsOf(d)' # {} /\ TabsOf(d)' \subseteq TabsOf(d) /\ TabsOf(d)' # TabsOf(d)) =>
           /\ ClockOf(d)' = ClockOf(d)
           /\ MapGet(activeSessions, d)' = MapGet(activeSessions, d)
           /\ sessionLogs' = sessionLogs
      /\ (TabsOf(d) # {} /\ TabsOf(d)' = {} /\ HasTracker(d)') =>
           /\ ClockOf(d)'.isPaused
           /\ ClockOf(d)'.pauseStartTime = now
           /\ ~SessionOpen(d)'
           /\ Len(sessionLogs') <= Len(sessionLogs) + 1
C1_LastTabPauses == [][C1_Step]_vars

C1_Witness ==
  /\ lastOp = << "pause", A, "t1" >>
  /\ ~isBackgrounded
  /\ TabsOf(A) = {"t2"}
  /\ Running(A)
  /\ SessionOpen(A)

\* C2: a tab id is a member of at most one domain's active-tab set.
C2_TabInOneDomain ==
  \A t \in AllTabs : Cardinality({d \in Domains : t \in TabsOf(d)}) <= 1

\* C3: when a session is closed, a log entry is appended if and only if the
\* distance delta exceeds the distance threshold or the total-time delta
\* exceeds the duration threshold.
C3_LoggedIffEitherThreshold ==
  [][\A d \in Domains :
       ClosesSession(d) =>
         (Appended(d) <=>
            (SessionLogOf(G, d, now).scrollDistance > MIN_SESSION_DISTANCE
             \/ SessionLogOf(G, d, now).totalTime > MIN_SESSION_TIME))]_vars

\* C4: every open/close cycle of a.com in which more than the threshold
\* distance was recorded yields its own log entry, whose scrollDistance is
\* the distance recorded between the cycle's start and its end.
C4_EachCycleLogged ==
  [][(ClosesSession(A) /\ isBackgrounded' = isBackgrounded
      /\ Distance(G, A) - MapGet(activeSessions, A).startScroll > MIN_SESSION_DISTANCE)
       => /\ Len(sessionLogs') = Len(sessionLogs) + 1
          /\ sessionLogs'[Len(sessionLogs')].domain = A
          /\ sessionLogs'[Len(sessionLogs')].scrollDistance =
               Distance(G, A) - MapGet(activeSessions, A).startScroll]_vars

RECURSIVE SumAbs(_)
SumAbs(deltas) ==
  IF deltas = << >> THEN 0
  ELSE (IF Head(deltas) < 0 THEN 0 - Head(deltas) ELSE Head(deltas))
       + SumAbs(Tail(deltas))

\* C5: the total distance of a ScrollTracker that started at 0 is the sum of
\* the magnitudes of the deltas fed to it, whatever their signs and whatever
\* the scrollY arguments.
C5_TotalIsSumOfMagnitudes ==
  ST_getCurrentMetrics(st).distancePixels = SumAbs(fed)

C5_Witness ==
  /\ Len(fed) >= 3
  /\ \E i \in 1..Len(fed) : fed[i] < 0
  /\ \E i \in 1..Len(fed) : fed[i] > 0
  /\ st.lastScrollY # 0

\* C6: scrollingTime never exceeds totalTime.
C6_ScrollingWithinTotal ==
  TT_getCurrentMetrics(tt, now).scrollingTime
    <= TT_getCurrentMetrics(tt, now).totalTime

C6_Witness ==
  /\ tt.scrollingTime > 0
  /\ tt.totalPausedTime > 0
  /\ tt.isPaused
  /\ now > tt.pauseStartTime

\* C7: totalTime is the wall-clock time since construction/reset spent
\* outside the pause()..resume() intervals.
C7_TotalExcludesPauses == TT_getCurrentMetrics(tt, now).totalTime = ttRun

C7_Witness ==
  /\ tt.isPaused
  /\ tt.totalPausedTime > 0
  /\ now > tt.pauseStartTime
  /\ ttRun > 0

\* C8: pause() on a paused tracker leaves pauseStartTime, totalPausedTime,
\* scrollingTime and the reported totalTime unchanged; resume() on a tracker
\* that is not paused changes nothing.
C8_PauseResumeIdempotent ==
  [][/\ (lastOp' = << "pause" >> /\ tt.isPaused) =>
          /\ tt'.pauseStartTime = tt.pauseStartTime
          /\ tt'.totalPausedTime = tt.totalPausedTime
          /\ tt'.scrollingTime = tt.scrollingTime
          /\ TT_getCurrentMetrics(tt', now').totalTime
               = TT_getCurrentMetrics(tt, now).totalTime
     /\ (lastOp' = << "resume" >> /\ ~tt.isPaused) => tt' = tt]_vars

\* pause() was called again, later than the pause that is in progress
C8_Witness ==
  /\ lastOp = << "pause" >>
  /\ tt.isPaused
  /\ tt.pauseStartTime < now
  /\ tt.scrollingTime > 0

\* C9: when initialize() loads the saved stats into a fresh tracker, the
\* stats of the restored tracker equal the saved ones.
C9_RoundTrip ==
  [][(initPc = "loadStats" /\ initPc' = "loadLogs" /\ domainStats = << >>) =>
       {getAllStats(G, now)[j] : j \in 1..Len(domainStats)}'
         = {storage.stats[i] : i \in 1..Len(storage.stats)}]_vars

\* C10: backgrounding pauses, once, the clock of every domain with an active
\* tab and ends its session; the return to 'active' resumes, once, exactly
\* those domains and opens their sessions; a repeated notification changes
\* nothing.
C10_Repeated ==
  /\ isBackgrounded =>
       /\ handleAppStateChange(G, "inactive", now) = G
       /\ handleAppStateChange(G, "background", now) = G
  /\ ~isBackgrounded => handleAppStateChange(G, "active", now) = G

C10_Step ==
  /\ (~isBackgrounded /\ isBackgrounded') =>
       \A d \in Domains :
         /\ TabsOf(d) # {} =>
              /\ HasTracker(d) /\ HasTracker(d)'
              /\ ~ClockOf(d).isPaused
              /\ ClockOf(d)'.isPaused
              /\ ClockOf(d)'.pauseStartTime = now
              /\ ClockOf(d)'.totalPausedTime = ClockOf(d).totalPausedTime
              /\ ~SessionOpen(d)'
         /\ (TabsOf(d) = {} /\ HasTracker(d)) =>
              /\ MapGet(domainStats, d)' = MapGet(domainStats, d)
              /\ SessionOpen(d)' = SessionOpen(d)
  /\ (isBackgrounded /\ ~isBackgrounded') =>
       \A d \in Domains :
         /\ TabsOf(d) # {} =>
              /\ Running(d)'
              /\ SessionOpen(d)'
              /\ MapGet(activeSessions, d)'.startTime = now
              /\ (HasTracker(d) /\ ClockOf(d).isPaused) =>
                   ClockOf(d)'.totalPausedTime =
                     ClockOf(d).totalPausedTime + (now - ClockOf(d).pauseStartTime)
         /\ (TabsOf(d) = {} /\ HasTracker(d)) =>
              /\ MapGet(domainStats, d)' = MapGet(domainStats, d)
              /\ SessionOpen(d)' = SessionOpen(d)
  /\ C10_Repeated'
C10_BackgroundPausesOnce == [][C10_Step]_vars

C10_Witness ==
  /\ lastOp = << "appState", "active" >>
  /\ \E d \in Domains :
       /\ TabsOf(d) # {}
       /\ Running(d)
       /\ ClockOf(d).totalPausedTime > 0
       /\ SessionOpen(d)

\* the entry of the domain in getAllStats(), without lastVisited
MetricsOf(domain) ==
  LET stats == getAllStats(G, now)
      i == CHOOSE j \in 1..Len(stats) : stats[j].domain = domain
  IN [distancePixels |-> stats[i].scrollMetrics.distancePixels,
      scrollingTime |-> stats[i].timeMetrics.scrollingTime,
      totalTime |-> stats[i].timeMetrics.totalTime]

\* the last active tab of the domain was dropped and no tab has resumed it
Vacated(domain) ==
  /\ TabsOf(domain) = {}
  /\ HasTracker(domain)
  /\ ClockOf(domain).isPaused

\* C11: from the pause that empties a domain's active-tab set until a tab
\* resumes the domain, the domain's distance, scrolling time and total time
\* in getAllStats stay constant, whatever samples of the domain arrive.
C11_NoDanglingAccrual ==
  [][\A d \in Domains :
       (Vacated(d) /\ Vacated(d)') => MetricsOf(d)' = MetricsOf(d)]_vars

\* C12: a URL that is empty, unparseable or not an http(s) URL resolves to
\* 'system' or 'unknown', so that a tracker whose handlers are only ever
\* called with such URLs has no tracker and no active-tab entry.
C12_NonHttpIsReserved ==
  env.urls = UrlsNonHttp =>
    /\ domainStats = << >>
    /\ activeTabsByDomain = << >>

NoReservedDomain(entries) ==
  \A i \in 1..Len(entries) : ~Reserved(entries[i].domain)

\* C13: neither 'system' nor 'unknown' is a domain of getAllStats(), of the
\* stats or logs that save() passed to storage, or of a session-log entry.
C13_ReservedNeverRecorded ==
  /\ NoReservedDomain(getAllStats(G, now))
  /\ NoReservedDomain(storage.stats)
  /\ NoReservedDomain(sessionLogs)
  /\ NoReservedDomain(storage.logs)
  /\ \A d \in MapKeys(activeSessions) : ~Reserved(d)

\* stats and a session log were recorded and saved by a tracker that is
\* also called with about: and unparseable URLs
C13_Witness ==
  /\ UrlAbout \in env.urls
  /\ UrlInvalid \in env.urls
  /\ Len(storage.stats) > 0
  /\ Len(storage.logs) > 0
  /\ Len(sessionLogs) > 0
  /\ activeSessions # << >>

\* the tracker after pause(url, tabId) is called in the current state
AfterPause(url, tabId) == pause(G, url, tabId, now)

\* C14: a pause by a tab that is not active on the domain (a second pause
\* without a resume in between) removes no tab from the domain's set, and
\* while another tab is active on the domain it changes neither a clock nor
\* a session nor the log.
C14_DuplicatePause ==
  \A url \in env.urls, tabId \in env.tabs :
    LET d == extractDomain(url)
    IN (~Reserved(d) /\ tabId \notin TabsOf(d)) =>
         /\ MapHas(AfterPause(url, tabId).activeTabsByDomain, d)
         /\ MapGet(AfterPause(url, tabId).activeTabsByDomain, d) = TabsOf(d)
         /\ TabsOf(d) # {} =>
              /\ AfterPause(url, tabId).domainStats = domainStats
              /\ AfterPause(url, tabId).activeSessions = activeSessions
              /\ AfterPause(url, tabId).sessionLogs = sessionLogs

\* t1 has paused a.com, where t2 is still active, and time has passed
C14_Witness ==
  /\ lastOp = << "pause", A, "t1" >>
  /\ TabsOf(A) = {"t2"}
  /\ ~isBackgrounded
  /\ SessionOpen(A)
  /\ now > MapGet(activeSessions, A).startTime
  /\ AfterPause(Url(A), "t1").domainStats = domainStats

\* the tracker after resume(url, tabId) is called in the current state
AfterResume(url, tabId) == resume(G, url, tabId, now)

\* C15: a URL whose key is the key already tracked changes at most
\* lastVisited (and the caller's membership of the active tabs): resume for
\* a domain whose session is active leaves the session baseline, the log and
\* every clock as they are; switchDomain of the per-tab tracker to its
\* current domain changes nothing.
C15_SameKeyIsNoOp ==
  /\ \A url \in env.urls, tabId \in env.tabs :
       LET d == extractDomain(url)
       IN (~Reserved(d) /\ SessionOpen(d)) =>
            /\ AfterResume(url, tabId).activeSessions = activeSessions
            /\ AfterResume(url, tabId).sessionLogs = sessionLogs
            /\ MapHas(AfterResume(url, tabId).domainStats, d)
            /\ HasTracker(d)
            /\ [AfterResume(url, tabId).domainStats EXCEPT
                  ![MapIdx(domainStats, d)].v.lastVisited =
                     MapGet(domainStats, d).lastVisited] = domainStats
  /\ \A url \in env.ptUrls :
       PT_extractDomain(url) = currentDomain =>
         PT_switchDomain(PT, url, now) = PT

\* a second tab resumed a.com later than the session of a.com began
C15_Witness ==
  /\ lastOp = << "resume", A, "t2" >>
  /\ TabsOf(A) = {"t1", "t2"}
  /\ SessionOpen(A)
  /\ MapGet(activeSessions, A).startTime < MapGet(domainStats, A).lastVisited
  /\ ~ClockOf(A).isPaused

\* C16: the session log never holds more than 10,000 entries; a session
\* close that appends keeps the new entry as the last one, evicts the oldest
\* entry exactly when the log was full, and leaves the order of the others.
C16_Step ==
  \A d \in Domains :
    (ClosesSession(d) /\ Significant(SessionLogOf(G, d, now))) =>
      LET old == sessionLogs
          new == sessionLogs'
          evicted == Len(old) + 1 - Len(new)
      IN /\ Len(new) <= MAX_SESSION_LOGS
         /\ new[Len(new)].domain = d
         /\ new[Len(new)].startTime = MapGet(activeSessions, d).startTime
         /\ new[Len(new)].endTime = now
         /\ evicted = (IF Len(old) = MAX_SESSION_LOGS THEN 1 ELSE 0)
         /\ \A i \in 1..(Len(new) - 1) : new[i] = old[i + evicted]
\* appending one more entry to the log as it stands, through the cap of
\* endSessionLog, keeps the newest MAX_SESSION_LOGS entries in order
C16_CapKeepsNewest ==
  LET log == StoredLog(Len(sessionLogs) + 1)
      appended == Append(sessionLogs, log)
      kept == KeepLast(appended, MAX_SESSION_LOGS)
      evicted == Len(appended) - Len(kept)
  IN /\ Len(kept) <= MAX_SESSION_LOGS
     /\ evicted = (IF Len(sessionLogs) >= MAX_SESSION_LOGS THEN 1 ELSE 0)
     /\ kept[Len(kept)] = log
     /\ \A i \in 1..Len(kept) : kept[i] = appended[i + evicted]
C16_LogIsCappedFifo ==
  /\ [][C16_Step]_vars
  /\ [](Len(sessionLogs) <= MAX_SESSION_LOGS)
  /\ []C16_CapKeepsNewest

\* a session was appended to a full log: the oldest stored entry is gone
C16_Witness ==
  /\ Len(sessionLogs) = MAX_SESSION_LOGS
  /\ sessionLogs[1] = StoredLog(2)
  /\ sessionLogs[MAX_SESSION_LOGS].endTime > T0

\* C17: a URL with host www.H and a URL with host H, H of at least two
\* labels, get the same attribution key: a tracker that is only given these
\* two URLs knows one domain.
C17_WwwCollapses ==
  (\E host \in Hostnames : env.urls = { Url(host), Url(Www(host)) }) =>
    /\ Cardinality(MapKeys(activeTabsByDomain)) <= 1
    /\ Cardinality(MapKeys(domainStats)) <= 1

\* C18: a burst that ends by timeout is credited the span from its first
\* sample to its last sample, not the idle time spent waiting for the
\* timeout after the last sample.
C18_TimeoutCreditsBurstOnly ==
  [][(lastOp' = << "timeout" >> /\ tt.isScrolling /\ ~tt'.isScrolling) =>
       tt'.scrollingTime - tt.scrollingTime = ttLast - tt.scrollSessionStartTime]_vars

\* C19: a touch 'end' sample received while a burst is open credits the
\* burst up to the sample's timestamp and leaves the tracker idle; a timeout
\* that expires while the tracker is idle adds no scrolling time.
C19_TouchEndClosesBurst ==
  [][/\ (lastOp' = << "touch", "end" >> /\ tt.isScrolling /\ ~tt.isPaused) =>
          /\ tt'.scrollingTime = tt.scrollingTime + (now - tt.scrollSessionStartTime)
          /\ ~tt'.isScrolling
          /\ tt'.scrollSessionStartTime = 0
     /\ (lastOp' = << "timeout" >> /\ ~tt.isScrolling) =>
          /\ tt'.scrollingTime = tt.scrollingTime
          /\ ~tt'.isScrolling]_vars

\* the timer armed by a scroll sample expired after a touch 'end' had closed
\* the burst, which is the only credit so far
C19_Witness ==
  /\ lastOp = << "timeout" >>
  /\ ~tt.isScrolling
  /\ tt.scrollingTime > 0
  /\ tt.scrollingTime < SCROLL_TIMEOUT
  /\ tt.totalPausedTime = 0
  /\ ~tt.isPaused
  /\ ttLast + SCROLL_TIMEOUT <= now

\* C20: a scroll or touch sample delivered to a paused TimeTracker changes
\* nothing: scrollingTime, the scrolling/idle state, the burst start, the
\* pause bookkeeping and the pending timeout stay as they are, and the
\* tracker stays paused.
C20_PausedIgnoresSamples ==
  [][(tt.isPaused /\ lastOp'[1] \in {"scroll", "touch"}) =>
       /\ tt' = tt
       /\ tt'.isPaused
       /\ tt'.timeoutAt = 0]_vars

\* a significant scroll sample has been delivered during a pause
C20_Witness ==
  /\ lastOp = << "scroll", -12 >>
  /\ tt.isPaused
  /\ tt.pauseStartTime < now
  /\ tt.scrollingTime > 0
  /\ ttLast < tt.pauseStartTime

\* C21: without reset(), successive readings of scrollingTime and of
\* totalTime never decrease, across pause/resume cycles included.
C21_ReadingsMonotone ==
  [][lastOp' # << "reset" >> =>
       /\ TT_getCurrentMetrics(tt', now').scrollingTime
            >= TT_getCurrentMetrics(tt, now).scrollingTime
       /\ TT_getCurrentMetrics(tt', now').totalTime
            >= TT_getCurrentMetrics(tt, now).totalTime]_vars

\* a reading taken right after the resume that ends a pause of some length
C21_Witness ==
  /\ lastOp = << "resume" >>
  /\ ~tt.isPaused
  /\ tt.totalPausedTime > 0
  /\ tt.scrollingTime > 0
  /\ TT_getCurrentMetrics(tt, now).totalTime > tt.scrollingTime

\* C22: the metrics of the original TimeTracker satisfy
\* totalTime = activeScrollTime + passiveViewTime, and active time never
\* exceeds total time.
C22_TotalIsActivePlusPassive ==
  LET m == OTT_getCurrentMetrics(ott, now)
  IN /\ m.totalTime = m.activeScrollTime + m.passiveViewTime
     /\ m.activeScrollTime <= m.totalTime

\* C23: handleUrlChange ends the current session and starts a new one if
\* and only if the new URL's domain differs from the current session's
\* domain or there is no session: on a change the ended session, with its
\* endTime and final metrics, is appended before the new session begins with
\* metrics at zero; on a same-domain URL the session and the list are left
\* unchanged.
C23_Step ==
  \A url \in DsmUrls :
    lastOp' = << "urlChange", url >> =>
      LET cur == dsm.currentSession
          newDomain == DSM_extractDomain(url)
      IN IF cur = Null \/ cur.domain # newDomain
         THEN /\ dsm'.currentSession # Null
              /\ dsm'.currentSession.domain = newDomain
              /\ dsm'.currentSession.startTime = now
              /\ dsm'.currentSession.scrollMetrics.distancePixels = 0
              /\ dsm'.currentSession.timeMetrics.activeScrollTime = 0
              /\ dsm'.currentSession.timeMetrics.totalTime = 0
              /\ ST_getCurrentMetrics(dsm'.scrollTracker).distancePixels = 0
              /\ OTT_getCurrentMetrics(dsm'.timeTracker, now).activeScrollTime = 0
              /\ OTT_getCurrentMetrics(dsm'.timeTracker, now).totalTime = 0
              /\ cur = Null => dsm'.sessions = dsm.sessions
              /\ cur # Null =>
                   /\ Len(dsm'.sessions) = Len(dsm.sessions) + 1
                   /\ SubSeq(dsm'.sessions, 1, Len(dsm.sessions)) = dsm.sessions
                   /\ LET ended == dsm'.sessions[Len(dsm'.sessions)]
                      IN /\ ended.domain = cur.domain
                         /\ ended.startTime = cur.startTime
                         /\ ended.endTime = now
                         /\ ended.scrollMetrics = ST_getCurrentMetrics(dsm.scrollTracker)
                         /\ ended.timeMetrics = OTT_getCurrentMetrics(dsm.timeTracker, now)
         ELSE /\ dsm'.currentSession = cur
              /\ dsm'.sessions = dsm.sessions
C23_SessionPerDomainChange == [][C23_Step]_vars

\* C24: every domain that has a tracker but no active tab has a paused
\* clock (so its totalTime does not grow), including the trackers created by
\* the startup restore and by the first scroll or touch sample of a domain.
C24_IdleTrackerIsPaused ==
  \A d \in Domains :
    (HasTracker(d) /\ TabsOf(d) = {}) => ClockOf(d).isPaused

\* C25: data recorded before the startup load completes is not lost: in
\* every step other than clearAllData (and the end of the process) no
\* domain's distance decreases, every log entry stays in the log, and the
\* baseline of every open session is one its domain's tracker has reached.
C25_Step ==
  (restarts' = restarts /\ ~(lastOp' = << "clearAllData" >> /\ domainStats' = << >>)) =>
    /\ \A d \in Domains : Distance(G', d) >= Distance(G, d)
    /\ \A i \in 1..Len(sessionLogs) :
         \E j \in 1..Len(sessionLogs') : sessionLogs'[j] = sessionLogs[i]
    /\ \A d \in Domains :
         SessionOpen(d)' =>
           /\ HasTracker(d)'
           /\ MapGet(activeSessions', d).startScroll <= Distance(G', d)
C25_NothingLostByLoad == [][C25_Step]_vars

\* C26: the burst-end timeout armed by a scroll sample closes only the burst
\* of that sample: when it expires while a burst is open that began after
\* the sample (the sample's burst was closed by a touch 'end' and a touch
\* 'start' opened a new one), the expiry neither closes nor credits the open
\* burst, and a touch 'end' credits the open burst from its start.
C26_ArmedBeforeBurst ==
  /\ tt.timeoutAt > 0
  /\ tt.isScrolling
  /\ tt.timeoutAt - SCROLL_TIMEOUT < tt.scrollSessionStartTime
C26_Step ==
  /\ (lastOp' = << "timeout" >> /\ C26_ArmedBeforeBurst) =>
        /\ tt'.isScrolling
        /\ tt'.scrollSessionStartTime = tt.scrollSessionStartTime
        /\ tt'.scrollingTime = tt.scrollingTime
  /\ (lastOp' = << "touch", "end" >> /\ ~tt.isPaused /\ tt.isScrolling) =>
        tt'.scrollingTime = tt.scrollingTime + (now - tt.scrollSessionStartTime)
C26_TimeoutClosesOwnBurstOnly == [][C26_Step]_vars

\* C27: no burst of the pausable TimeTracker is credited twice: scrollingTime
\* changes only in a touch 'end', a timeout expiry or a pause that closes the
\* open burst, and then by the time since the burst's start; every step
\* that closes a burst (other than reset) is one of these three; a pause
\* leaves no burst open and no timeout pending; an open burst keeps its
\* start, and a burst opens at the current time (so credited intervals do not
\* overlap), and the credited time plus the open burst's elapsed part never
\* exceeds the time the clock has run.
C27_Open(t) == t.isScrolling /\ t.scrollSessionStartTime > 0
C27_Closers == { << "touch", "end" >>, << "timeout" >>, << "pause" >> }
C27_Step ==
  /\ lastOp' # << "reset" >> =>
       /\ tt'.scrollingTime # tt.scrollingTime => (C27_Open(tt) /\ ~C27_Open(tt'))
       /\ (C27_Open(tt) /\ ~C27_Open(tt')) =>
            /\ lastOp' \in C27_Closers
            /\ tt'.scrollingTime =
                 tt.scrollingTime + (now - tt.scrollSessionStartTime)
       /\ (C27_Open(tt) /\ C27_Open(tt')) =>
            tt'.scrollSessionStartTime = tt.scrollSessionStartTime
       /\ (~C27_Open(tt) /\ C27_Open(tt')) => tt'.scrollSessionStartTime = now
       /\ lastOp' = << "pause" >> => (~C27_Open(tt') /\ tt'.timeoutAt = 0)
  /\ tt'.scrollingTime
       + (IF C27_Open(tt') THEN now' - tt'.scrollSessionStartTime ELSE 0) <= ttRun'
C27_BurstCreditedOnce == [][C27_Step]_vars
C27_Witness ==
  /\ lastOp = << "pause" >>
  /\ tt.isPaused
  /\ ttLast > 0 /\ now > ttLast /\ now - ttLast < SCROLL_TIMEOUT
  /\ tt.scrollingTime = ttRun
  /\ ttRun > ShortStep

\* C28: in the foreground a domain has an open session if and only if its
\* active-tab set is non-empty; in the background no session is open; and a
\* domain with an open session has a tracker whose clock is not paused.
C28_SessionsFollowTabs ==
  \A d \in Domains \cup MapKeys(activeTabsByDomain) \cup MapKeys(activeSessions) :
    /\ ~isBackgrounded => (SessionOpen(d) <=> TabsOf(d) # {})
    /\ isBackgrounded => ~SessionOpen(d)
    /\ SessionOpen(d) => (HasTracker(d) /\ ~ClockOf(d).isPaused)
C28_Witness ==
  /\ lastOp = << "appState", "active" >>
  /\ ~isBackgrounded
  /\ SessionOpen(A) /\ TabsOf(A) # {} /\ ~ClockOf(A).isPaused
  /\ HasTracker(B) /\ TabsOf(B) = {} /\ ~SessionOpen(B)
  /\ MapGet(activeSessions, A).startTime = now
  /\ now > T0

\* C29: in the per-tab DomainStatsTracker, from a pause() of the tab (also
\* one issued before the tab's first switchDomain) until the next resume()
\* no domain's clock is running; a switchDomain in between starts none.
C29_PausedTabHasNoRunningClock ==
  ptHeld =>
    \A i \in 1..Len(ptDomainStats) : ptDomainStats[i].v.timeTracker.isPaused

\* C30: save() writes nothing to storage before the startup load has
\* completed: while the load is pending a call of save() leaves the tracker
\* and the storage as they are, and no step of the timer, of a pause or of an
\* app-state change alters the stored stats or logs (only clearAllData, which
\* clears the storage itself, does).
C30_Step ==
  initPc # "done" =>
    /\ save(G, now) = G
    /\ storage' # storage =>
         (lastOp' = << "clearAllData" >> /\ storage' = EmptyStorage)
C30_NoSaveBeforeLoad == [][C30_Step]_vars
C30_Witness ==
  /\ initPc # "done"
  /\ restarts > 0
  /\ lastOp = << "appState", "background" >>
  /\ Len(storage.stats) > 0
  /\ HasTracker(A)
  /\ getAllStats(G, now) # storage.stats

====
